---- MODULE Spec2Model ----
(***************************************************************************)
(* Model of the response validation / repair loops of the a2ui sample      *)
(* agents: RestaurantAgent.stream (restaurant_finder/agent.py) and         *)
(* RealEstateAgent.stream (real_estate_agent/agent.py), and of             *)
(* RealEstateAgentExecutor.execute (real_estate_agent/agent_executor.py),  *)
(* which consumes the stream of the real-estate agent.                     *)
(*                                                                         *)
(* A text is a sequence of tokens.  The delimiter literal, the fixed       *)
(* messages of the code and the user's query are single tokens; the        *)
(* payload after the delimiter is spelled character by character over a    *)
(* small alphabet (backquote, "j", "s", "o", "n", "[", "]", ",", blanks)      *)
(* plus three atoms standing for whole JSON values: "M" (an object that    *)
(* satisfies the single-message schema), "X" (an object that does not)     *)
(* and "1" (a number).                                                     *)
(***************************************************************************)
EXTENDS Naturals, Integers, Sequences, FiniteSets, TLC

VARIABLES agent, use_ui, a2ui_schema_object, query, pc, attempt,
          current_query_text, final_response_content, out, prompts,
          finals, errors, nevents,
          xpc, consumed, published, text_content, exec_json_string,
          api_key, IMAGE_CACHE, spc, places_result, results,
          ppc, place_id, photo_ref, client, upstream, body, response,
          rpc, capabilities, loaded_schema, held_schemas,
          part_converter_schema, session_state

\* the state of a call of stream
streamVars == <<agent, use_ui, a2ui_schema_object, query, pc, attempt,
                current_query_text, final_response_content, out, prompts,
                finals, errors, nevents>>

\* the state of a call of execute
executeVars == <<xpc, consumed, published, text_content, exec_json_string>>

\* the environment and the state of tools.py and of the image proxy
serviceVars == <<api_key, IMAGE_CACHE, spc, places_result, results,
                 ppc, place_id, photo_ref, client, upstream, body, response>>

\* the state of the requests of RizzchartsAgentExecutor
rizzVars == <<rpc, capabilities, loaded_schema, held_schemas,
              part_converter_schema, session_state>>

vars == <<streamVars, executeVars, serviceVars, rizzVars>>

(***************************************************************************)
(* Bounds                                                                  *)
(***************************************************************************)
\* intermediate (non-final) events the runner may produce in one attempt
MaxEvents == 2

\* the longest Places response that is enumerated in full
MaxPlaces == 2

\* the requests RizzchartsAgentExecutor handles at the same time
MaxRequests == 2

(***************************************************************************)
(* Text primitives                                                         *)
(***************************************************************************)
Delim == "---a2ui_JSON---"

None == <<"<None>">>

WhiteSpace == {" ", "\n"}

RECURSIVE IndexFrom(_, _, _)
IndexFrom(s, tok, i) ==
    IF i > Len(s) THEN 0
    ELSE IF s[i] = tok THEN i
    ELSE IndexFrom(s, tok, i + 1)

\* str.find: position of the first occurrence, 0 when there is none
Find(s, tok) == IndexFrom(s, tok, 1)

\* the membership test of str (in)
Contains(s, tok) == Find(s, tok) # 0

RECURSIVE LastIndexFrom(_, _, _)
LastIndexFrom(s, tok, i) ==
    IF i < 1 THEN 0
    ELSE IF s[i] = tok THEN i
    ELSE LastIndexFrom(s, tok, i - 1)

\* the split is made at the last occurrence (rsplit)
SplitLast(s, tok) ==
    <<SubSeq(s, 1, LastIndexFrom(s, tok, Len(s)) - 1),
      SubSeq(s, LastIndexFrom(s, tok, Len(s)) + 1, Len(s))>>

\* s.split(tok, 1) for a text that contains tok: <<before, after>>
SplitFirst(s, tok) ==
    <<SubSeq(s, 1, Find(s, tok) - 1), SubSeq(s, Find(s, tok) + 1, Len(s))>>

RECURSIVE LStripSet(_, _)
LStripSet(s, chars) ==
    IF s # <<>> /\ Head(s) \in chars THEN LStripSet(Tail(s), chars) ELSE s

RECURSIVE RStripSet(_, _)
RStripSet(s, chars) ==
    IF s # <<>> /\ s[Len(s)] \in chars
    THEN RStripSet(SubSeq(s, 1, Len(s) - 1), chars)
    ELSE s

\* str.strip()
Strip(s) == RStripSet(LStripSet(s, WhiteSpace), WhiteSpace)

\* the backquote character of a code fence
Backtick == "BACKTICK"

\* str.lstrip and str.rstrip take their argument as a set of characters:
\* the characters of the fence opener with its json label, and of the
\* fence closer
LFenceChars == {Backtick, "j", "s", "o", "n"}

RFenceChars == {Backtick}

\* the fence closer is not stripped
CleanJsonNoRStrip(js) == Strip(LStripSet(Strip(js), LFenceChars))

\* json_string.strip().lstrip(fence opener).rstrip(fence closer).strip()
CleanJson(js) ==
    Strip(RStripSet(LStripSet(Strip(js), LFenceChars), RFenceChars))

RECURSIVE JoinTexts(_)
JoinTexts(ts) ==
    IF ts = <<>> THEN <<>>
    ELSE IF Len(ts) = 1 THEN ts[1]
    ELSE ts[1] \o <<"\n">> \o JoinTexts(Tail(ts))

\* [p.text for p in parts if p.text]
TextsOf(parts) == SelectSeq(parts, LAMBDA t : t # <<>>)

\* contiguous occurrence of the text sub in the text s
ContainsText(s, sub) ==
    \E i \in 1..(Len(s) + 1) :
        /\ i + Len(sub) - 1 <= Len(s)
        /\ SubSeq(s, i, i + Len(sub) - 1) = sub

(***************************************************************************)
(* json.loads over the token alphabet                                      *)
(***************************************************************************)
RECURSIVE SkipWS(_, _)
SkipWS(s, i) ==
    IF i <= Len(s) /\ s[i] \in WhiteSpace THEN SkipWS(s, i + 1) ELSE i

ParseFail == [ok |-> FALSE, t |-> "fail", items |-> <<>>, next |-> 0]

RECURSIVE ParseValue(_, _)
RECURSIVE ParseItems(_, _, _)
\* parses one JSON value that starts at position i (white space skipped)
ParseValue(s, i) ==
    LET j == SkipWS(s, i) IN
    IF j > Len(s) THEN ParseFail
    ELSE IF s[j] = "M"
         THEN [ok |-> TRUE, t |-> "message", items |-> <<>>, next |-> j + 1]
    ELSE IF s[j] = "X"
         THEN [ok |-> TRUE, t |-> "object", items |-> <<>>, next |-> j + 1]
    ELSE IF s[j] = "1"
         THEN [ok |-> TRUE, t |-> "number", items |-> <<>>, next |-> j + 1]
    ELSE IF s[j] = "["
         THEN LET k == SkipWS(s, j + 1) IN
              IF k <= Len(s) /\ s[k] = "]"
              THEN [ok |-> TRUE, t |-> "array", items |-> <<>>, next |-> k + 1]
              ELSE ParseItems(s, j + 1, <<>>)
    ELSE ParseFail

\* parses "value (, value)* ]" from position i; acc holds the types so far
ParseItems(s, i, acc) ==
    LET v == ParseValue(s, i) IN
    IF ~v.ok THEN ParseFail
    ELSE LET k == SkipWS(s, v.next) IN
         IF k > Len(s) THEN ParseFail
         ELSE IF s[k] = ","
              THEN ParseItems(s, k + 1, Append(acc, v.t))
         ELSE IF s[k] = "]"
              THEN [ok |-> TRUE, t |-> "array",
                    items |-> Append(acc, v.t), next |-> k + 1]
         ELSE ParseFail

\* json.loads: one value and nothing but white space after it
JsonLoads(s) ==
    LET v == ParseValue(s, 1) IN
    IF v.ok /\ SkipWS(s, v.next) > Len(s) THEN v ELSE ParseFail

\* the schema of a single message is not wrapped in an array schema
SchemaValidSingleMessage(v) == v.t = "message"

\* jsonschema.validate(instance, {"type": "array", "items": single_message})
SchemaValid(v) ==
    /\ v.t = "array"
    /\ \A k \in 1..Len(v.items) : v.items[k] = "message"

(***************************************************************************)
(* Fixed texts of the two agents                                           *)
(***************************************************************************)
\* a loop bound one too large: three attempts
max_retries_two == 1 + 1

\* a loop bound one too small: no retry
max_retries_zero == 1 - 1

max_retries == 1

CONFIG_ERROR ==
    <<"I'm sorry, I'm facing an internal configuration error with my UI components. Please contact support.">>

NO_RESPONSE_ERROR ==
    <<"I'm sorry, I encountered an error and couldn't process your request.">>

RETRY_EXHAUSTED ==
    <<"I'm sorry, I'm having trouble generating the interface for that request right now. Please try again in a moment.">>

NO_PROPERTIES ==
    <<"I'm sorry, I couldn't find any properties matching that query.">>

RestaurantProcessingMessage ==
    <<"Finding restaurants that match your criteria...">>

RealEstateProcessingMessage ==
    <<"Searching for the perfect properties for you...">>

\* the messages of the exceptions raised inside the validation block
MissingDelimiter == <<"Delimiter '", Delim, "' not found.">>

EmptyPayload == <<"JSON part is empty.">>

EmptyCleanedPayload == <<"Cleaned JSON string is empty.">>

MalformedJson == <<"<json.JSONDecodeError>">>

SchemaViolation == <<"<jsonschema.ValidationError>">>

\* the prompt of the retry after an attempt without final response content
NoResponsePrompt(q) ==
    <<"I received no response. Please try again.",
      "Please retry the original request: '">> \o q \o <<"'">>

SchemaInstruction ==
    <<"You MUST generate a valid response that strictly follows the A2UI JSON SCHEMA. ">>

\* the retry prompt does not repeat the original request
InvalidResponsePromptNoQuery(error_message, q) ==
    <<"Your previous response was invalid. ">> \o error_message \o <<" ">>
    \o SchemaInstruction
    \o <<"The response MUST be a JSON list of A2UI messages. ",
         "Ensure the response is split by '", Delim,
         "' and the JSON part is well-formed. ">>

\* the prompt of the retry after a failed validation
InvalidResponsePrompt(error_message, q) ==
    <<"Your previous response was invalid. ">> \o error_message \o <<" ">>
    \o SchemaInstruction
    \o <<"The response MUST be a JSON list of A2UI messages. ",
         "Ensure the response is split by '", Delim,
         "' and the JSON part is well-formed. ",
         "Please retry the original request: '">> \o q \o <<"'">>

\* error_message = f"Validation failed: {e}."
ErrorMessage(e) == <<"Validation failed: ">> \o e \o <<".">>

\* the parsed value is not validated against the schema
ValidationErrorNoSchema(content) ==
    IF ~Contains(content, Delim) THEN MissingDelimiter
    ELSE LET json_string == SplitFirst(content, Delim)[2]
             json_string_cleaned == CleanJson(json_string)
         IN  IF Strip(json_string) = <<>> THEN EmptyPayload
             ELSE IF json_string_cleaned = <<>> THEN EmptyCleanedPayload
             ELSE IF ~JsonLoads(json_string_cleaned).ok THEN MalformedJson
             ELSE <<>>

(***************************************************************************)
(* The validation block of RestaurantAgent.stream: the message of the      *)
(* exception it raises, or the empty text when the response is valid       *)
(***************************************************************************)
ValidationError(content) ==
    IF ~Contains(content, Delim) THEN MissingDelimiter
    ELSE LET json_string == SplitFirst(content, Delim)[2]
             json_string_cleaned == CleanJson(json_string)
         IN  IF Strip(json_string) = <<>> THEN EmptyPayload
             ELSE IF json_string_cleaned = <<>> THEN EmptyCleanedPayload
             ELSE IF ~JsonLoads(json_string_cleaned).ok THEN MalformedJson
             ELSE IF ~SchemaValid(JsonLoads(json_string_cleaned))
                  THEN SchemaViolation
             ELSE <<>>

(***************************************************************************)
(* What the model can do: the user's queries, the texts of the model and   *)
(* the events of the runner                                                *)
(***************************************************************************)
Queries == {<<"Find homes in Palo Alto">>, <<"top 5 chinese places">>}

Fence == <<Backtick, Backtick, Backtick>>

FenceJson == Fence \o <<"j", "s", "o", "n">>

Prose == <<"Here are results">>

TextNoDelimiter == Prose

TextValid == Prose \o <<Delim, "[", "M", "]">>

TextValidFenced ==
    Prose \o <<"\n", Delim, "\n">> \o FenceJson
    \o <<"\n", "[", "M", ",", " ", "M", "]", "\n">> \o Fence

TextEmptyArray == <<Delim, "[", "]">>

TextEmptyPayload == Prose \o <<Delim, " ", "\n">>

TextFenceOnly == Prose \o <<Delim>> \o FenceJson \o <<"\n">> \o Fence

TextMalformed == Prose \o <<Delim, "[", "M", ",">>

TextSingleMessage == Prose \o <<Delim, " ", "M">>

TextBadItem == Prose \o <<Delim, "[", "M", ",", "X", "]">>

TextTwoDelimiters == Prose \o <<Delim, "[", "M", "]", Delim, "[", "M", "]">>

TextLabelOnly == Prose \o <<Delim, "j", "s", "o", "n", "[", "M", "]">>

TextDelimiterTwice == Prose \o <<" ", Delim, Delim, "[", "M", "]">>

TextNumber == Prose \o <<Delim, "1">>

TextWrapped ==
    <<" ", Delim, "\n", "p", " ", "[", "X", ",", "M", "]", " ", "p">>

ModelTexts ==
    {TextNoDelimiter, TextValid, TextValidFenced, TextEmptyArray,
     TextEmptyPayload, TextFenceOnly, TextMalformed, TextSingleMessage,
     TextBadItem, TextTwoDelimiters, TextLabelOnly, RETRY_EXHAUSTED,
     TextDelimiterTwice, TextNumber, TextWrapped}

\* the parts of an event: the text of each part, empty for a part without text
PartLists ==
    {<<>>, <<<<>>>>, <<<<>>, Prose>>, <<Prose, <<Delim, "[", "M", "]">>>>}
    \cup {<<t>> : t \in ModelTexts}

FinalEvents == {[final |-> TRUE, parts |-> p] : p \in PartLists}

IntermediateEvents ==
    {[final |-> FALSE, parts |-> p] : p \in {<<>>, <<Prose>>, <<TextValid>>}}

\* the runner's stream ended without a final event
NoFinalEvent == [final |-> FALSE, parts |-> <<>>]

Progress(message) == [is_task_complete |-> FALSE, updates |-> message]

Terminal(text) == [is_task_complete |-> TRUE, content |-> text]

(***************************************************************************)
(* State after construction; no call of stream has started                 *)
(***************************************************************************)
Requests == 1..MaxRequests

\* tools.py line 11 and __main__.py: the cache is empty, no search has
\* returned, no image request is being handled
ServiceQuiet ==
    /\ IMAGE_CACHE = <<>>
    /\ spc = "idle"
    /\ places_result = <<>>
    /\ results = <<>>
    /\ ppc = "idle"
    /\ place_id = "None"
    /\ photo_ref = "None"
    /\ client = "none"
    /\ upstream = "none"
    /\ body = "none"
    /\ response = "none"

\* rizzcharts/agent_executor.py lines 50-75: one part converter without
\* schema, no request has arrived
RizzQuiet ==
    /\ rpc = [r \in Requests |-> "idle"]
    /\ capabilities = [r \in Requests |-> "None"]
    /\ loaded_schema = [r \in Requests |-> None]
    /\ held_schemas = [r \in Requests |-> {}]
    /\ part_converter_schema = None
    /\ session_state = [r \in Requests |-> "None"]

Init ==
    /\ api_key = "None"
    /\ ServiceQuiet
    /\ RizzQuiet
    /\ agent \in {"restaurant", "real_estate"}
    /\ use_ui \in BOOLEAN
    /\ a2ui_schema_object \in {"loaded", "None"}
    /\ query = <<>>
    /\ pc = "idle"
    /\ attempt = 0
    /\ current_query_text = <<>>
    /\ final_response_content = None
    /\ out = <<>>
    /\ prompts = <<>>
    /\ finals = <<>>
    /\ errors = <<>>
    /\ nevents = 0
    /\ xpc = "idle"
    /\ consumed = 0
    /\ published = <<>>
    /\ text_content = None
    /\ exec_json_string = None

(***************************************************************************)
(* RestaurantAgent.stream                                                  *)
(***************************************************************************)
\* the check forgets the mode: text mode is refused as well
SchemaNotLoadedAnyMode == a2ui_schema_object = "None"

\* line 138: UI mode without a loaded schema
SchemaNotLoaded == use_ui /\ a2ui_schema_object = "None"

\* lines 114-150: the call starts; the configuration check
RestaurantStart(q) ==
    /\ UNCHANGED <<executeVars, serviceVars, rizzVars>>
    /\ agent = "restaurant"
    /\ pc = "idle"
    /\ query' = q
    /\ attempt' = 0
    /\ current_query_text' = q
    /\ IF SchemaNotLoaded
       THEN /\ out' = Append(out, Terminal(CONFIG_ERROR))
            /\ pc' = "done"
       ELSE /\ out' = out
            /\ pc' = "loop"
    /\ UNCHANGED <<agent, use_ui, a2ui_schema_object, final_response_content,
                   prompts, finals, errors, nevents>>

\* lines 152-168 and 292-302: the loop test; a new attempt invokes the model
\* with current_query_text, a failed test yields the apology
RestaurantAttempt ==
    /\ UNCHANGED <<executeVars, serviceVars, rizzVars>>
    /\ agent = "restaurant"
    /\ pc = "loop"
    /\ IF attempt <= max_retries
       THEN /\ attempt' = attempt + 1
            /\ prompts' = Append(prompts, current_query_text)
            /\ final_response_content' = None
            /\ nevents' = 0
            /\ pc' = "events"
            /\ out' = out
       ELSE /\ out' = Append(out, Terminal(RETRY_EXHAUSTED))
            /\ pc' = "done"
            /\ UNCHANGED <<attempt, prompts, final_response_content, nevents>>
    /\ UNCHANGED <<agent, use_ui, a2ui_schema_object, query,
                   current_query_text, finals, errors>>

\* progress is notified once per attempt only
RestaurantIntermediateOnce(event) ==
    /\ UNCHANGED <<executeVars, serviceVars, rizzVars>>
    /\ agent = "restaurant"
    /\ pc = "events"
    /\ ~event.final
    /\ nevents < MaxEvents
    /\ nevents' = nevents + 1
    /\ out' = IF nevents = 0
              THEN Append(out, Progress(RestaurantProcessingMessage))
              ELSE out
    /\ UNCHANGED <<agent, use_ui, a2ui_schema_object, query, pc, attempt,
                   current_query_text, final_response_content, prompts,
                   finals, errors>>

\* lines 180-186: an event that is not the final response
RestaurantIntermediate(event) ==
    /\ UNCHANGED <<executeVars, serviceVars, rizzVars>>
    /\ agent = "restaurant"
    /\ pc = "events"
    /\ ~event.final
    /\ nevents < MaxEvents
    /\ nevents' = nevents + 1
    /\ out' = Append(out, Progress(RestaurantProcessingMessage))
    /\ UNCHANGED <<agent, use_ui, a2ui_schema_object, query, pc, attempt,
                   current_query_text, final_response_content, prompts,
                   finals, errors>>

\* only the first part of the final response event is kept
RestaurantFinalTextFirstPart(event) ==
    IF event.parts # <<>> /\ event.parts[1] # <<>>
    THEN event.parts[1]
    ELSE None

\* lines 170-179: the text of the final response event
RestaurantFinalText(event) ==
    IF event.parts # <<>> /\ event.parts[1] # <<>>
    THEN JoinTexts(TextsOf(event.parts))
    ELSE None

\* lines 170-179: the final response event ends the attempt's event loop
RestaurantFinal(event) ==
    /\ UNCHANGED <<executeVars, serviceVars, rizzVars>>
    /\ agent = "restaurant"
    /\ pc = "events"
    /\ event.final
    /\ final_response_content' = RestaurantFinalText(event)
    /\ finals' = Append(finals, event)
    /\ pc' = "post"
    /\ UNCHANGED <<agent, use_ui, a2ui_schema_object, query, attempt,
                   current_query_text, out, prompts, errors, nevents>>

\* line 164: the runner's event stream ends without a final response event
RestaurantStreamEnd ==
    /\ UNCHANGED <<executeVars, serviceVars, rizzVars>>
    /\ agent = "restaurant"
    /\ pc = "events"
    /\ finals' = Append(finals, NoFinalEvent)
    /\ pc' = "post"
    /\ UNCHANGED <<agent, use_ui, a2ui_schema_object, query, attempt,
                   current_query_text, final_response_content, out, prompts,
                   errors, nevents>>

\* the exhaustion of the attempts is taken for granted: a missing response
\* becomes the error text on the first attempt already
ContentAfterNoResponseCheckNoRetry ==
    IF final_response_content = None
    THEN NO_RESPONSE_ERROR
    ELSE final_response_content

\* the text-only error of the exhausted attempts is replaced by the apology
\* of the failed validation
ContentAfterNoResponseCheckApology ==
    IF final_response_content = None
    THEN IF attempt <= max_retries THEN None ELSE RETRY_EXHAUSTED
    ELSE final_response_content

\* lines 188-202: the content the attempt goes on with, None when the
\* attempt is given up for a retry
ContentAfterNoResponseCheck ==
    IF final_response_content = None
    THEN IF attempt <= max_retries THEN None ELSE NO_RESPONSE_ERROR
    ELSE final_response_content

\* the last attempt is let through without validation
RestaurantErrorLenientLast(content) ==
    IF use_ui /\ attempt <= max_retries THEN ValidationError(content) ELSE <<>>

\* lines 204-263: the outcome of the validation of a content
RestaurantError(content) ==
    IF use_ui THEN ValidationError(content) ELSE <<>>

\* the return after the yield of a valid content is missing
PcAfterEventsNoReturn(content, e) == "loop"

\* lines 265-274 and 198: a valid content is yielded and the generator
\* returns; every other outcome goes back to the loop test
PcAfterEvents(content, e) ==
    IF content # None /\ e = <<>> THEN "done" ELSE "loop"

\* lines 188-290: after the event loop of an attempt
RestaurantAfterEvents ==
    /\ UNCHANGED <<executeVars, serviceVars, rizzVars>>
    /\ agent = "restaurant"
    /\ pc = "post"
    /\ LET content == ContentAfterNoResponseCheck IN
       IF content = None
       THEN \* lines 193-198
            /\ current_query_text' = NoResponsePrompt(query)
            /\ errors' = Append(errors, <<"<no final response>">>)
            /\ final_response_content' = final_response_content
            /\ out' = out
            /\ pc' = PcAfterEvents(content, <<>>)
       ELSE LET e == RestaurantError(content) IN
            /\ final_response_content' = content
            /\ errors' = Append(errors, e)
            /\ pc' = PcAfterEvents(content, e)
            /\ IF e = <<>>
               THEN \* lines 265-274
                    /\ out' = Append(out, Terminal(content))
                    /\ current_query_text' = current_query_text
               ELSE \* lines 278-290
                    /\ out' = out
                    /\ current_query_text' =
                          IF attempt <= max_retries
                          THEN InvalidResponsePrompt(ErrorMessage(e), query)
                          ELSE current_query_text
    /\ UNCHANGED <<agent, use_ui, a2ui_schema_object, query, attempt,
                   prompts, finals, nevents>>

RestaurantNext ==
    \/ \E q \in Queries : RestaurantStart(q)
    \/ RestaurantAttempt
    \/ \E event \in IntermediateEvents : RestaurantIntermediate(event)
    \/ \E event \in FinalEvents : RestaurantFinal(event)
    \/ RestaurantStreamEnd
    \/ RestaurantAfterEvents

(***************************************************************************)
(* RealEstateAgent.stream                                                  *)
(***************************************************************************)
\* lines 91-104: the call starts
RealEstateStart(q) ==
    /\ UNCHANGED <<executeVars, serviceVars, rizzVars>>
    /\ agent = "real_estate"
    /\ pc = "idle"
    /\ query' = q
    /\ attempt' = 0
    /\ current_query_text' = q
    /\ pc' = "loop"
    /\ UNCHANGED <<agent, use_ui, a2ui_schema_object, final_response_content,
                   out, prompts, finals, errors, nevents>>

\* lines 106-111 and 126: the loop test; a new attempt invokes the model with
\* current_query_text, a failed test yields the apology
RealEstateAttempt ==
    /\ UNCHANGED <<executeVars, serviceVars, rizzVars>>
    /\ agent = "real_estate"
    /\ pc = "loop"
    /\ IF attempt <= max_retries
       THEN /\ attempt' = attempt + 1
            /\ prompts' = Append(prompts, current_query_text)
            /\ final_response_content' = None
            /\ nevents' = 0
            /\ pc' = "events"
            /\ out' = out
       ELSE /\ out' = Append(out, Terminal(NO_PROPERTIES))
            /\ pc' = "done"
            /\ UNCHANGED <<attempt, prompts, final_response_content, nevents>>
    /\ UNCHANGED <<agent, use_ui, a2ui_schema_object, query,
                   current_query_text, finals, errors>>

\* lines 112-115: the first event of the attempt that carries text sets the
\* content
RealEstateCollect(content, event) ==
    IF content = None /\ TextsOf(event.parts) # <<>>
    THEN JoinTexts(TextsOf(event.parts))
    ELSE content

\* lines 112-119: an event that is not the final response
RealEstateIntermediate(event) ==
    /\ UNCHANGED <<executeVars, serviceVars, rizzVars>>
    /\ agent = "real_estate"
    /\ pc = "events"
    /\ ~event.final
    /\ nevents < MaxEvents
    /\ nevents' = nevents + 1
    /\ final_response_content' =
          RealEstateCollect(final_response_content, event)
    /\ out' = Append(out, Progress(RealEstateProcessingMessage))
    /\ UNCHANGED <<agent, use_ui, a2ui_schema_object, query, pc, attempt,
                   current_query_text, prompts, finals, errors>>

\* lines 112-117: the final response event ends the attempt's event loop
RealEstateFinal(event) ==
    /\ UNCHANGED <<executeVars, serviceVars, rizzVars>>
    /\ agent = "real_estate"
    /\ pc = "events"
    /\ event.final
    /\ final_response_content' =
          RealEstateCollect(final_response_content, event)
    /\ finals' = Append(finals, event)
    /\ pc' = "post"
    /\ UNCHANGED <<agent, use_ui, a2ui_schema_object, query, attempt,
                   current_query_text, out, prompts, errors, nevents>>

\* line 111: the runner's event stream ends without a final response event
RealEstateStreamEnd ==
    /\ UNCHANGED <<executeVars, serviceVars, rizzVars>>
    /\ agent = "real_estate"
    /\ pc = "events"
    /\ finals' = Append(finals, NoFinalEvent)
    /\ pc' = "post"
    /\ UNCHANGED <<agent, use_ui, a2ui_schema_object, query, attempt,
                   current_query_text, final_response_content, out, prompts,
                   errors, nevents>>

\* lines 121-124: after the event loop of an attempt
RealEstateAfterEvents ==
    /\ UNCHANGED <<executeVars, serviceVars, rizzVars>>
    /\ agent = "real_estate"
    /\ pc = "post"
    /\ IF final_response_content # None
       THEN /\ out' = Append(out, Terminal(final_response_content))
            /\ errors' = Append(errors, <<>>)
            /\ pc' = "done"
       ELSE /\ out' = out
            /\ errors' = Append(errors, <<"<no final response>">>)
            /\ pc' = "loop"
    /\ UNCHANGED <<agent, use_ui, a2ui_schema_object, query, attempt,
                   current_query_text, final_response_content, prompts,
                   finals, nevents>>

RealEstateNext ==
    \/ \E q \in Queries : RealEstateStart(q)
    \/ RealEstateAttempt
    \/ \E event \in IntermediateEvents : RealEstateIntermediate(event)
    \/ \E event \in FinalEvents : RealEstateFinal(event)
    \/ RealEstateStreamEnd
    \/ RealEstateAfterEvents

(***************************************************************************)
(* RealEstateAgentExecutor.execute: consumes the items of                  *)
(* RealEstateAgent.stream and publishes status updates                     *)
(***************************************************************************)
\* the tokens that start with "[" or "{" and those that end with "]" or "}";
\* the atoms "M" and "X" are objects in braces
OpenTokens == {"[", "M", "X"}

CloseTokens == {"]", "M", "X"}

RECURSIVE FirstIn(_, _, _)
\* the first position from i on that holds a token of the set, 0 if none
FirstIn(s, set, i) ==
    IF i > Len(s) THEN 0
    ELSE IF s[i] \in set THEN i
    ELSE FirstIn(s, set, i + 1)

RECURSIVE LastIn(_, _, _)
\* the last position up to i that holds a token of the set, 0 if none
LastIn(s, set, i) ==
    IF i < 1 THEN 0
    ELSE IF s[i] \in set THEN i
    ELSE LastIn(s, set, i - 1)

\* lines 58-62: the trimmed text sliced from the first opening bracket or
\* brace (the start when there is none) to the last closing one (the end
\* when there is none)
ExtractSpan(js) ==
    LET cleaned == Strip(js)
        first_item == IF FirstIn(cleaned, OpenTokens, 1) = 0
                      THEN 1
                      ELSE FirstIn(cleaned, OpenTokens, 1)
        last_item == IF LastIn(cleaned, CloseTokens, Len(cleaned)) = 0
                     THEN Len(cleaned)
                     ELSE LastIn(cleaned, CloseTokens, Len(cleaned))
    IN  SubSeq(cleaned, first_item, last_item)

TextPart(t) == [kind |-> "text", text |-> t, data |-> "none"]

\* create_a2ui_part(message): the data is the kind of the JSON value
A2uiPart(v) == [kind |-> "a2ui", text |-> <<>>, data |-> v]

\* lines 65-70: one part per element of a list, one part for any other value
A2uiParts(v) ==
    IF v.t = "array"
    THEN [k \in 1..Len(v.items) |-> A2uiPart(v.items[k])]
    ELSE <<A2uiPart(v.t)>>

\* the prose becomes a text part even when it is empty
ProsePartsAlways(tc) == <<TextPart(Strip(tc))>>

\* lines 54-55: the trimmed prose as a text part unless it is empty
ProseParts(tc) ==
    IF Strip(tc) # <<>> THEN <<TextPart(Strip(tc))>> ELSE <<>>

\* the fallback text part holds the sliced span instead of the raw text
PayloadPartsSpanFallback(js) ==
    IF JsonLoads(ExtractSpan(js)).ok
    THEN A2uiParts(JsonLoads(ExtractSpan(js)))
    ELSE <<TextPart(ExtractSpan(js))>>

\* lines 57-88: the parts made of the text after the delimiter; a parse
\* error is caught at line 86 and the raw text becomes a text part
PayloadParts(js) ==
    IF JsonLoads(ExtractSpan(js)).ok
    THEN A2uiParts(JsonLoads(ExtractSpan(js)))
    ELSE <<TextPart(js)>>

\* lines 51-90: the parts of the final message
FinalParts(content) ==
    IF Contains(content, Delim)
    THEN ProseParts(SplitFirst(content, Delim)[1])
         \o PayloadParts(SplitFirst(content, Delim)[2])
    ELSE <<TextPart(Strip(content))>>

\* the final status update closes the task
TaskStateForCompleted(item) ==
    IF item.is_task_complete THEN "completed" ELSE "working"

\* lines 43-44 and 92-93: the task state of the status update for an item
TaskStateFor(item) ==
    IF item.is_task_complete THEN "input_required" ELSE "working"

StatusUpdate(state, parts) == [state |-> state, parts |-> parts]

\* lines 30-41: execute starts and begins to iterate over agent.stream
ExecuteStart ==
    /\ agent = "real_estate"
    /\ xpc = "idle"
    /\ xpc' = "stream"
    /\ UNCHANGED <<consumed, published, text_content, exec_json_string>>
    /\ UNCHANGED <<streamVars, serviceVars, rizzVars>>

\* lines 41-47: a progress notification is published as a working status
ExecuteProgress ==
    /\ agent = "real_estate"
    /\ xpc = "stream"
    /\ consumed < Len(out)
    /\ ~out[consumed + 1].is_task_complete
    /\ consumed' = consumed + 1
    /\ published' =
          Append(published,
                 StatusUpdate(TaskStateFor(out[consumed + 1]),
                              <<TextPart(out[consumed + 1].updates)>>))
    /\ UNCHANGED <<xpc, text_content, exec_json_string>>
    /\ UNCHANGED <<streamVars, serviceVars, rizzVars>>

\* lines 49-96: the terminal item is split into parts, published, and the
\* iteration is left
ExecuteFinal ==
    /\ agent = "real_estate"
    /\ xpc = "stream"
    /\ consumed < Len(out)
    /\ out[consumed + 1].is_task_complete
    /\ consumed' = consumed + 1
    /\ LET content == out[consumed + 1].content IN
       /\ IF Contains(content, Delim)
          THEN /\ text_content' = SplitFirst(content, Delim)[1]
               /\ exec_json_string' = SplitFirst(content, Delim)[2]
          ELSE UNCHANGED <<text_content, exec_json_string>>
       /\ published' =
             Append(published,
                    StatusUpdate(TaskStateFor(out[consumed + 1]),
                                 FinalParts(content)))
    /\ xpc' = "done"
    /\ UNCHANGED <<streamVars, serviceVars, rizzVars>>

ExecuteNext ==
    \/ ExecuteStart
    \/ ExecuteProgress
    \/ ExecuteFinal

Next == RestaurantNext \/ RealEstateNext \/ ExecuteNext

Spec == Init /\ [][Next]_vars

\* type correctness of the control state
TypeOK ==
    /\ pc \in {"idle", "loop", "events", "post", "done"}
    /\ attempt \in 0..(max_retries + 1)
    /\ nevents \in 0..MaxEvents
    /\ Len(prompts) = attempt
    /\ xpc \in {"idle", "stream", "done"}
    /\ consumed \in 0..Len(out)

(***************************************************************************)
(* tools.py: search_properties and the process-wide IMAGE_CACHE            *)
(***************************************************************************)
ResultCap == 6

UpperCase == "ABCDEFGHIJKLMNOPQRSTUVWXYZ"

LowerCase == "abcdefghijklmnopqrstuvwxyz"

\* str.lower of one character
LowerChar(c) ==
    IF \E i \in 1..Len(UpperCase) : SubSeq(UpperCase, i, i) = c
    THEN LET i == CHOOSE j \in 1..Len(UpperCase) : SubSeq(UpperCase, j, j) = c
         IN  SubSeq(LowerCase, i, i)
    ELSE c

\* str.lower
RECURSIVE Lower(_)
Lower(str) ==
    IF Len(str) = 0 THEN ""
    ELSE LowerChar(SubSeq(str, 1, 1)) \o Lower(SubSeq(str, 2, Len(str)))

\* kw in name: kw occurs in name as a substring
InStr(kw, name) ==
    \E i \in 1..Len(name) :
        /\ i + Len(kw) - 1 <= Len(name)
        /\ SubSeq(name, i, i + Len(kw) - 1) = kw

avoid_keywords ==
    {"realty", "agency", "real estate", "broker", "office",
     "management", "apartment", "complex", "corporate", "builders",
     "development", "advisors", "properties", "mortgage", "lending",
     "title", "escrow", "associates", "partners", "group", "team"}

company_keywords == {"real estate", "realty", "broker", "agency", "management"}

\* the places the Places API can return
House == [name |-> "12 Oak Street", formatted_address |-> "12 Oak St",
          rating |-> "4.5", place_id |-> "ChIJ1", photos |-> <<"ref1">>]

HouseNewPhoto == [House EXCEPT !.photos = <<"ref1b", "ref1c">>]

Cottage == [name |-> "45 Elm Cottage", formatted_address |-> "45 Elm Rd",
            rating |-> "None", place_id |-> "ChIJ2", photos |-> <<>>]

GroupHome == [name |-> "Sunset Group Homes", formatted_address |-> "7 Bay Ave",
              rating |-> "4.0", place_id |-> "ChIJ3", photos |-> <<"ref3">>]

Steamboat == [name |-> "Steamboat Villa", formatted_address |-> "9 Pier Ln",
              rating |-> "None", place_id |-> "ChIJ4", photos |-> <<>>]

Brokers == [name |-> "REAL ESTATE Brokers", formatted_address |-> "1 Main St",
            rating |-> "3.9", place_id |-> "ChIJ5", photos |-> <<"ref5">>]

Catalogue == {House, HouseNewPhoto, Cottage, GroupHome, Steamboat, Brokers}

\* the place ids of a response longer than the cap
LongIds == <<"h1", "h2", "h3", "h4", "h5", "h6", "h7">>

LongHouse(k) ==
    [name |-> "Maple Court", formatted_address |-> "Maple Ct",
     rating |-> "None", place_id |-> LongIds[k], photos |-> <<>>]

PlaceNames == {place.name : place \in Catalogue} \cup {LongHouse(1).name}

\* any(kw in name for kw in keywords)
AnyKeyword(keywords, name) == \E kw \in keywords : InStr(kw, name)

\* lines 46, 48 and 50: the two keyword tests on the lower-cased name,
\* tabulated over the names of the places
KeywordTests ==
    [name \in PlaceNames |->
        [avoid |-> AnyKeyword(avoid_keywords, Lower(name)),
         company |-> AnyKeyword(company_keywords, Lower(name))]]

\* a name with an avoid keyword is skipped only once two results are kept
SkipPlaceAfterTwo(place, kept) ==
    /\ KeywordTests[place.name].avoid
    /\ \/ KeywordTests[place.name].company
       \/ Len(kept) >= 2

\* lines 46-54: the place is skipped (continue)
SkipPlace(place, kept) ==
    /\ KeywordTests[place.name].avoid
    /\ \/ KeywordTests[place.name].company
       \/ Len(kept) >= 1

\* line 69: urllib.parse.quote over letters, digits and spaces
RECURSIVE Quote(_)
Quote(str) ==
    IF Len(str) = 0 THEN ""
    ELSE (IF SubSeq(str, 1, 1) = " " THEN "%20" ELSE SubSeq(str, 1, 1))
         \o Quote(SubSeq(str, 2, Len(str)))

\* the store forgets the entries made before
CacheStoreFresh(cache, id, ref) == [k \in {id} |-> ref]

\* line 66: IMAGE_CACHE[place_id] = photo_ref
CacheStore(cache, id, ref) ==
    [k \in DOMAIN cache \cup {id} |-> IF k = id THEN ref ELSE cache[k]]

\* lines 60-86: the result built from a place
ResultOf(place) ==
    [name |-> place.name,
     address |-> place.formatted_address,
     rating |-> IF place.rating # "None"
                THEN "Rating: " \o place.rating
                ELSE "New listing",
     place_id |-> place.place_id,
     publicUrl |-> <<"https://www.google.com/maps/search/?api=1&query=",
                     place.formatted_address, "&query_place_id=",
                     place.place_id>>,
     imageUrl |-> IF place.photos # <<>>
                  THEN <<"http://localhost:10003", "/proxy-image?id=",
                         place.place_id, "&desc=",
                         Quote(place.name)>>
                  ELSE <<"https://loremflickr.com/800/600/house,interior,home/all?lock=",
                         "hash", place.place_id>>]

\* lines 45-89: the loop over the places of the response, from place i on,
\* with the results kept and the cache written so far
RECURSIVE ScanPlaces(_, _, _, _)
ScanPlaces(places, i, kept, cache) ==
    IF i > Len(places) THEN [results |-> kept, cache |-> cache]
    ELSE IF SkipPlace(places[i], kept)
    THEN ScanPlaces(places, i + 1, kept, cache)
    ELSE LET written == IF places[i].photos # <<>>
                        THEN CacheStore(cache, places[i].place_id,
                                        places[i].photos[1])
                        ELSE cache
             longer == Append(kept, ResultOf(places[i]))
         IN  IF Len(longer) >= ResultCap
             THEN [results |-> longer, cache |-> written]
             ELSE ScanPlaces(places, i + 1, longer, written)

\* every response of at most MaxPlaces places of the catalogue
ShortResponses ==
    UNION {[1..n -> Catalogue] : n \in 0..MaxPlaces}

\* responses longer than the cap: plain houses and one place of the catalogue
LongResponses ==
    {[k \in 1..Len(LongIds) |-> IF k = i THEN place ELSE LongHouse(k)] :
        i \in 1..Len(LongIds), place \in Catalogue}

PlacesResponses == ShortResponses \cup LongResponses

\* the responses of at most one place
SingleResponses == {<<>>} \cup {<<place>> : place \in Catalogue}

PlaceIds == {place.place_id : place \in Catalogue} \cup {"house"}

\* lines 19-22: the API key is not set
SearchPropertiesNoKey ==
    /\ api_key = "None"
    /\ spc' = "returned"
    /\ results' = <<>>
    /\ places_result' = <<>>
    /\ UNCHANGED <<api_key, IMAGE_CACHE, ppc, place_id, photo_ref, client,
                   upstream, body, response>>
    /\ UNCHANGED <<streamVars, executeVars, rizzVars>>

\* lines 34 and 93-95: the call of the Places API raises
SearchPropertiesApiError ==
    /\ api_key # "None"
    /\ spc' = "returned"
    /\ results' = <<>>
    /\ places_result' = <<>>
    /\ UNCHANGED <<api_key, IMAGE_CACHE, ppc, place_id, photo_ref, client,
                   upstream, body, response>>
    /\ UNCHANGED <<streamVars, executeVars, rizzVars>>

\* lines 24-92: the Places API answers with the places resp
SearchProperties(resp) ==
    /\ api_key # "None"
    /\ spc' = "returned"
    /\ places_result' = resp
    /\ LET scan == ScanPlaces(resp, 1, <<>>, IMAGE_CACHE)
       IN  /\ results' = scan.results
           /\ IMAGE_CACHE' = scan.cache
    /\ UNCHANGED <<api_key, ppc, place_id, photo_ref, client, upstream, body,
                   response>>
    /\ UNCHANGED <<streamVars, executeVars, rizzVars>>

(***************************************************************************)
(* __main__.py: the handler of /proxy-image                                *)
(***************************************************************************)
\* lines 70-72 and 82-99: a request arrives; the photo reference is read
\* from the cache and, when it and the API key exist, the client is created
ProxyStart(id) ==
    /\ ppc \in {"idle", "done"}
    /\ place_id' = id
    /\ photo_ref' = IF id \in DOMAIN IMAGE_CACHE THEN IMAGE_CACHE[id] ELSE "None"
    /\ IF photo_ref' = "None" \/ api_key = "None"
       THEN /\ client' = "none"
            /\ ppc' = "generate"
       ELSE /\ client' = "open"
            /\ ppc' = "send"
    /\ upstream' = "none"
    /\ body' = "none"
    /\ response' = "none"
    /\ UNCHANGED <<api_key, IMAGE_CACHE, spc, places_result, results>>
    /\ UNCHANGED <<streamVars, executeVars, rizzVars>>

\* lines 104-105 and 119-128: the upstream answers 200; the handler returns
\* the streaming response over the generator, which has not started
ProxySendOk ==
    /\ ppc = "send"
    /\ upstream' = "open"
    /\ body' = "created"
    /\ response' = "stream"
    /\ ppc' = "stream"
    /\ UNCHANGED <<api_key, IMAGE_CACHE, spc, places_result, results, place_id,
                   photo_ref, client>>
    /\ UNCHANGED <<streamVars, executeVars, rizzVars>>

\* lines 107-111: the upstream answers with another status; the upstream
\* response and the client are closed
ProxySendOtherStatus ==
    /\ ppc = "send"
    /\ upstream' = "closed"
    /\ client' = "closed"
    /\ ppc' = "generate"
    /\ UNCHANGED <<api_key, IMAGE_CACHE, spc, places_result, results, place_id,
                   photo_ref, body, response>>
    /\ UNCHANGED <<streamVars, executeVars, rizzVars>>

\* lines 101-105 and 129-131: building or sending the request raises; the
\* client is closed
ProxySendRaises ==
    /\ ppc = "send"
    /\ client' = "closed"
    /\ ppc' = "generate"
    /\ UNCHANGED <<api_key, IMAGE_CACHE, spc, places_result, results, place_id,
                   photo_ref, upstream, body, response>>
    /\ UNCHANGED <<streamVars, executeVars, rizzVars>>

\* lines 84-89, 112-117 and 132-137: the generated image file when there is
\* one, otherwise the redirect to the placeholder
ProxyGenerate(ai_image_path) ==
    /\ ppc = "generate"
    /\ response' = IF ai_image_path # "None" THEN "file" ELSE "redirect"
    /\ ppc' = "done"
    /\ UNCHANGED <<api_key, IMAGE_CACHE, spc, places_result, results, place_id,
                   photo_ref, client, upstream, body>>
    /\ UNCHANGED <<streamVars, executeVars, rizzVars>>

\* lines 121-122: the server takes the first chunk; the generator is
\* suspended at its yield
ProxyStreamChunk ==
    /\ ppc = "stream"
    /\ body = "created"
    /\ body' = "suspended"
    /\ UNCHANGED <<api_key, IMAGE_CACHE, spc, places_result, results, ppc,
                   place_id, photo_ref, client, upstream, response>>
    /\ UNCHANGED <<streamVars, executeVars, rizzVars>>

\* lines 121-125: the upstream bytes are exhausted; the finally block closes
\* the upstream response and the client
ProxyStreamComplete ==
    /\ ppc = "stream"
    /\ body \in {"created", "suspended"}
    /\ body' = "finished"
    /\ upstream' = "closed"
    /\ client' = "closed"
    /\ ppc' = "done"
    /\ UNCHANGED <<api_key, IMAGE_CACHE, spc, places_result, results, place_id,
                   photo_ref, response>>
    /\ UNCHANGED <<streamVars, executeVars, rizzVars>>

\* lines 121-125: reading the upstream bytes raises; the finally block runs
ProxyStreamRaises ==
    /\ ppc = "stream"
    /\ body \in {"created", "suspended"}
    /\ body' = "failed"
    /\ upstream' = "closed"
    /\ client' = "closed"
    /\ ppc' = "done"
    /\ UNCHANGED <<api_key, IMAGE_CACHE, spc, places_result, results, place_id,
                   photo_ref, response>>
    /\ UNCHANGED <<streamVars, executeVars, rizzVars>>

\* lines 119-128: the server drops the response (the browser went away) and
\* the generator is closed.  A generator suspended at its yield runs its
\* finally block; a generator that has not started runs nothing of its body
ProxyStreamAbort ==
    /\ ppc = "stream"
    /\ body \in {"created", "suspended"}
    /\ body' = "closed"
    /\ IF body = "suspended"
       THEN /\ upstream' = "closed"
            /\ client' = "closed"
       ELSE UNCHANGED <<upstream, client>>
    /\ ppc' = "done"
    /\ UNCHANGED <<api_key, IMAGE_CACHE, spc, places_result, results, place_id,
                   photo_ref, response>>
    /\ UNCHANGED <<streamVars, executeVars, rizzVars>>

\* search_properties alone, over every response of the model
ToolsNext ==
    \/ SearchPropertiesNoKey
    \/ SearchPropertiesApiError
    \/ \E resp \in PlacesResponses : SearchProperties(resp)

\* the searches that write the cache and the requests of the image proxy
ServiceNext ==
    \/ SearchPropertiesNoKey
    \/ SearchPropertiesApiError
    \/ \E resp \in SingleResponses : SearchProperties(resp)
    \/ \E id \in PlaceIds : ProxyStart(id)
    \/ ProxySendOk
    \/ ProxySendOtherStatus
    \/ ProxySendRaises
    \/ \E ai_image_path \in {"None", "/tmp/re_images/x.png"} :
          ProxyGenerate(ai_image_path)
    \/ ProxyStreamChunk
    \/ ProxyStreamComplete
    \/ ProxyStreamRaises
    \/ ProxyStreamAbort

\* the agent of the service is idle; the environment may hold the API key
ServiceInit ==
    /\ agent = "real_estate"
    /\ use_ui = TRUE
    /\ a2ui_schema_object = "loaded"
    /\ query = <<>>
    /\ pc = "idle"
    /\ attempt = 0
    /\ current_query_text = <<>>
    /\ final_response_content = None
    /\ out = <<>>
    /\ prompts = <<>>
    /\ finals = <<>>
    /\ errors = <<>>
    /\ nevents = 0
    /\ xpc = "idle"
    /\ consumed = 0
    /\ published = <<>>
    /\ text_content = None
    /\ exec_json_string = None
    /\ api_key \in {"None", "AIzaSyKEY"}
    /\ ServiceQuiet
    /\ RizzQuiet

ServiceSpec == ServiceInit /\ [][ServiceNext]_vars

ToolsSpec == ServiceInit /\ [][ToolsNext]_vars

(***************************************************************************)
(* rizzcharts/agent_executor.py: RizzchartsAgentExecutor                   *)
(***************************************************************************)
STANDARD_CATALOG_ID == "standard_catalog"

RIZZCHARTS_CATALOG_URI == "rizzcharts_catalog"

\* the client capabilities a message can carry in its metadata
ClientCapabilities == {"None", STANDARD_CATALOG_ID, RIZZCHARTS_CATALOG_URI}

\* lines 55-62 and 129: the schema and the catalog for the capabilities; the
\* standard catalog is the default
load_a2ui_schema(client_ui_capabilities) ==
    LET uri == IF client_ui_capabilities = "None"
               THEN STANDARD_CATALOG_ID
               ELSE client_ui_capabilities
    IN  [a2ui_schema |-> <<"server_to_client.json", uri>>,
         catalog_uri |-> uri]

\* lines 114-122: a request arrives; its session is being loaded
RizzRequest(r, ui, caps) ==
    /\ rpc[r] = "idle"
    /\ rpc' = [rpc EXCEPT ![r] = "prepare"]
    /\ capabilities' =
          [capabilities EXCEPT ![r] = [use_ui |-> ui, metadata |-> caps]]
    /\ UNCHANGED <<loaded_schema, held_schemas, part_converter_schema,
                   session_state>>
    /\ UNCHANGED <<streamVars, executeVars, serviceVars>>

\* lines 124-131: the session is loaded; when the request activates A2UI
\* the schema is loaded and set on the part converter of the executor
RizzPrepare(r) ==
    /\ rpc[r] = "prepare"
    /\ IF capabilities[r].use_ui
       THEN /\ loaded_schema' =
                  [loaded_schema EXCEPT ![r] =
                      load_a2ui_schema(capabilities[r].metadata).a2ui_schema]
            /\ part_converter_schema' =
                  load_a2ui_schema(capabilities[r].metadata).a2ui_schema
            /\ rpc' = [rpc EXCEPT ![r] = "append"]
       ELSE /\ rpc' = [rpc EXCEPT ![r] = "run"]
            /\ UNCHANGED <<loaded_schema, part_converter_schema>>
    /\ session_state' = [session_state EXCEPT ![r] = <<"base_url">>]
    /\ UNCHANGED <<capabilities, held_schemas>>
    /\ UNCHANGED <<streamVars, executeVars, serviceVars>>

\* lines 133-148: the state event is appended to the session
RizzAppendEvent(r) ==
    /\ rpc[r] = "append"
    /\ session_state' =
          [session_state EXCEPT ![r] =
              <<"base_url", TRUE, loaded_schema[r],
                load_a2ui_schema(capabilities[r].metadata).catalog_uri>>]
    /\ rpc' = [rpc EXCEPT ![r] = "run"]
    /\ UNCHANGED <<capabilities, loaded_schema, held_schemas,
                   part_converter_schema>>
    /\ UNCHANGED <<streamVars, executeVars, serviceVars>>

\* lines 71-75: a part of the model's output is converted by the part
\* converter of the executor, with the schema the converter holds
RizzConvert(r) ==
    /\ rpc[r] = "run"
    /\ held_schemas' =
          [held_schemas EXCEPT ![r] = @ \cup {part_converter_schema}]
    /\ UNCHANGED <<rpc, capabilities, loaded_schema, part_converter_schema,
                   session_state>>
    /\ UNCHANGED <<streamVars, executeVars, serviceVars>>

\* the run of the request ends
RizzFinish(r) ==
    /\ rpc[r] = "run"
    /\ rpc' = [rpc EXCEPT ![r] = "done"]
    /\ UNCHANGED <<capabilities, loaded_schema, held_schemas,
                   part_converter_schema, session_state>>
    /\ UNCHANGED <<streamVars, executeVars, serviceVars>>

RizzNext ==
    \E r \in Requests :
        \/ \E ui \in BOOLEAN, caps \in ClientCapabilities :
              RizzRequest(r, ui, caps)
        \/ RizzPrepare(r)
        \/ RizzAppendEvent(r)
        \/ RizzConvert(r)
        \/ RizzFinish(r)

RizzInit == ServiceInit /\ api_key = "None"

RizzSpec == RizzInit /\ [][RizzNext]_vars

(***************************************************************************)
(* Observations used by the properties                                     *)
(***************************************************************************)
Done == pc = "done"

Invocations == Len(prompts)

TerminalItems == {i \in 1..Len(out) : out[i].is_task_complete}

ProgressItems == {i \in 1..Len(out) : ~out[i].is_task_complete}

\* the content of the terminal item of a finished call
TerminalContent == out[Len(out)].content

\* the final response event of attempt k carries response text: it is a
\* final event whose first part has text
HasFinalText(k) ==
    /\ k \in 1..Len(finals)
    /\ finals[k].final
    /\ finals[k].parts # <<>>
    /\ finals[k].parts[1] # <<>>

\* the raw text of the final response event of attempt k
FinalText(k) == JoinTexts(TextsOf(finals[k].parts))

\* no attempt made so far has produced final response text
NoFinalTextAtAll == \A k \in 1..Len(finals) : ~HasFinalText(k)

(***************************************************************************)
(* C1: the output of a call of stream is zero or more items with           *)
(* is_task_complete = FALSE followed by exactly one item with              *)
(* is_task_complete = TRUE: a terminal item is the last item of the        *)
(* output, the call is finished exactly when the output ends with a        *)
(* terminal item, and a finished call has exactly one.                     *)
(***************************************************************************)
C1_ProgressThenOneTerminal ==
    /\ \A i \in 1..Len(out) : out[i].is_task_complete => i = Len(out)
    /\ Done <=> (out # <<>> /\ out[Len(out)].is_task_complete)
    /\ Done => Cardinality(TerminalItems) = 1

\* a call that made two attempts, notified progress and then finished
C1_Witness ==
    /\ agent = "real_estate"
    /\ Done
    /\ attempt = 2
    /\ Cardinality(ProgressItems) >= 2
    /\ Cardinality(TerminalItems) = 1

(***************************************************************************)
(* C2: the model is invoked at most twice in a call, and the attempt       *)
(* counter never exceeds max_retries + 1.                                  *)
(***************************************************************************)
C2_AtMostTwoInvocations ==
    /\ Invocations <= 2
    /\ attempt <= max_retries + 1
    /\ Invocations = attempt

\* both attempts were used and the call ended with the apology
C2_Witness ==
    /\ Done
    /\ Invocations = 2
    /\ TerminalContent \in {RETRY_EXHAUSTED, NO_PROPERTIES}

(***************************************************************************)
(* C3 as stated: in text mode the single terminal item of                  *)
(* RestaurantAgent.stream carries the raw text of the final response event *)
(* of the attempt that ended the call, whatever the model does.            *)
(***************************************************************************)
C3_Original ==
    (agent = "restaurant" /\ ~use_ui /\ Done) =>
        /\ Cardinality(TerminalItems) = 1
        /\ TerminalContent = FinalText(Len(finals))

(***************************************************************************)
(* C3 amended: in text mode a finished call of RestaurantAgent.stream has  *)
(* exactly one terminal item; its content is the raw text of the final     *)
(* response event of the attempt that ended the call when that event       *)
(* carries text (its first part has text), and it is the fixed text-only   *)
(* error when neither of the two attempts produced final response text.    *)
(***************************************************************************)
C3_TextModePassthrough ==
    (agent = "restaurant" /\ ~use_ui /\ Done) =>
        /\ Cardinality(TerminalItems) = 1
        /\ IF HasFinalText(Len(finals))
           THEN TerminalContent = FinalText(Len(finals))
           ELSE /\ TerminalContent = NO_RESPONSE_ERROR
                /\ Len(finals) = 2
                /\ NoFinalTextAtAll

\* text mode, the final event has two text parts and the content is their join
C3_Witness ==
    /\ agent = "restaurant"
    /\ ~use_ui
    /\ Done
    /\ Len(finals[Len(finals)].parts) = 2
    /\ HasFinalText(Len(finals))
    /\ TerminalContent = Prose \o <<"\n", Delim, "[", "M", "]">>

(***************************************************************************)
(* C4 as stated: when no attempt of RestaurantAgent.stream produces final  *)
(* response text, in UI mode and in text mode alike, the terminal content  *)
(* is the apology of the exhausted retries and the model was invoked       *)
(* twice.                                                                  *)
(***************************************************************************)
C4_Original ==
    (agent = "restaurant" /\ Done /\ Len(finals) >= 1 /\ NoFinalTextAtAll) =>
        /\ TerminalContent = RETRY_EXHAUSTED
        /\ Invocations = 2

(***************************************************************************)
(* C4 amended: when no attempt of RestaurantAgent.stream produces final    *)
(* response text the model was invoked twice, and the terminal content is  *)
(* the apology of the exhausted retries in UI mode and the fixed text-only *)
(* error "I'm sorry, I encountered an error and couldn't process your      *)
(* request." in text mode.                                                 *)
(***************************************************************************)
C4_NoFinalResponse ==
    (agent = "restaurant" /\ Done /\ Len(finals) >= 1 /\ NoFinalTextAtAll) =>
        /\ Invocations = 2
        /\ use_ui => TerminalContent = RETRY_EXHAUSTED
        /\ ~use_ui => TerminalContent = NO_RESPONSE_ERROR

\* text mode, the stream of the first attempt ended without a final event and
\* the final event of the second had no text
C4_Witness ==
    /\ agent = "restaurant"
    /\ ~use_ui
    /\ Done
    /\ Len(finals) = 2
    /\ ~finals[1].final
    /\ finals[2].final
    /\ NoFinalTextAtAll
    /\ TerminalContent = NO_RESPONSE_ERROR

(***************************************************************************)
(* The checks of UI mode, stated on a response text                        *)
(***************************************************************************)
\* the text after the first delimiter
Suffix(text) == SubSeq(text, Find(text, Delim) + 1, Len(text))

\* the text contains the delimiter, its suffix is not empty after trimming
\* and fence stripping, the stripped suffix parses as JSON and the parsed
\* value satisfies the array schema
PassesUiChecks(text) ==
    /\ Contains(text, Delim)
    /\ Strip(Suffix(text)) # <<>>
    /\ CleanJson(Suffix(text)) # <<>>
    /\ JsonLoads(CleanJson(Suffix(text))).ok
    /\ SchemaValid(JsonLoads(CleanJson(Suffix(text))))

\* a text with one leading fence opener (with or without its json label) and
\* one trailing fence closer removed as whole tokens
Unfenced(text) ==
    LET t == Strip(text)
        a == IF Len(t) >= 7 /\ SubSeq(t, 1, 7) = FenceJson
             THEN SubSeq(t, 8, Len(t))
             ELSE IF Len(t) >= 3 /\ SubSeq(t, 1, 3) = Fence
                  THEN SubSeq(t, 4, Len(t))
                  ELSE t
        b == IF Len(a) >= 3 /\ SubSeq(a, Len(a) - 2, Len(a)) = Fence
             THEN SubSeq(a, 1, Len(a) - 3)
             ELSE a
    IN  Strip(b)

\* a well-formed payload: prose, the delimiter, and a suffix that is a JSON
\* array of messages, bare or inside one code fence
WellFormedPayload(text) ==
    /\ Contains(text, Delim)
    /\ JsonLoads(Unfenced(Suffix(text))).ok
    /\ JsonLoads(Unfenced(Suffix(text))).t = "array"
    /\ \A k \in 1..Len(JsonLoads(Unfenced(Suffix(text))).items) :
          JsonLoads(Unfenced(Suffix(text))).items[k] = "message"

UiCall == agent = "restaurant" /\ use_ui /\ a2ui_schema_object = "loaded"

(***************************************************************************)
(* C5: in UI mode with the schema loaded, when the first final response of *)
(* RestaurantAgent.stream is a well-formed payload, the call invokes the   *)
(* model exactly once and its terminal content is that response text       *)
(* unchanged.                                                              *)
(***************************************************************************)
C5_WellFormedFirstAttempt ==
    (UiCall /\ Done /\ HasFinalText(1) /\ WellFormedPayload(FinalText(1))) =>
        /\ Invocations = 1
        /\ Cardinality(TerminalItems) = 1
        /\ TerminalContent = FinalText(1)

\* the first response was a fenced array of two messages after the prose
C5_Witness ==
    /\ UiCall
    /\ Done
    /\ HasFinalText(1)
    /\ FinalText(1) = TextValidFenced
    /\ TerminalContent = TextValidFenced
    /\ ContainsText(TerminalContent, Prose)
    /\ ContainsText(TerminalContent, <<"[", "M", ",", " ", "M", "]">>)

(***************************************************************************)
(* C6: in UI mode, when the responses of both attempts of                  *)
(* RestaurantAgent.stream fail the checks, the terminal content is exactly *)
(* the apology of the exhausted retries: it is neither the diagnostic of a *)
(* failed validation nor one of the two invalid responses.                 *)
(***************************************************************************)
C6_BothAttemptsInvalid ==
    (/\ UiCall
     /\ Done
     /\ HasFinalText(1) /\ ~PassesUiChecks(FinalText(1))
     /\ HasFinalText(2) /\ ~PassesUiChecks(FinalText(2))) =>
        /\ TerminalContent = RETRY_EXHAUSTED
        /\ \A k \in 1..Len(errors) :
              /\ errors[k] # <<>>
              /\ ~ContainsText(TerminalContent, errors[k])
        /\ \A k \in 1..2 :
              FinalText(k) # RETRY_EXHAUSTED => TerminalContent # FinalText(k)

\* a schema violation on the first attempt and a missing delimiter on the
\* second
C6_Witness ==
    /\ UiCall
    /\ Done
    /\ Len(finals) = 2
    /\ FinalText(1) = TextBadItem
    /\ FinalText(2) = TextNoDelimiter
    /\ errors = <<SchemaViolation, MissingDelimiter>>
    /\ TerminalContent = RETRY_EXHAUSTED

C8_SecondAttemptRecovers ==
    /\ (/\ UiCall
        /\ Len(errors) = 1
        /\ ~(HasFinalText(1) /\ PassesUiChecks(FinalText(1)))) =>
          /\ ~Done
          /\ out = SelectSeq(out, LAMBDA item : ~item.is_task_complete)
          /\ pc = "loop" => attempt <= max_retries
    /\ (/\ UiCall
        /\ Done
        /\ ~(HasFinalText(1) /\ PassesUiChecks(FinalText(1)))) =>
          /\ Invocations = 2
          /\ Len(finals) = 2
          /\ (HasFinalText(2) /\ PassesUiChecks(FinalText(2))) =>
                /\ TerminalContent = FinalText(2)
                /\ Cardinality(TerminalItems) = 1

\* no final response on the first attempt, a valid payload on the second
C8_Witness ==
    /\ UiCall
    /\ Done
    /\ Len(finals) = 2
    /\ ~HasFinalText(1)
    /\ FinalText(2) = TextValidFenced
    /\ TerminalContent = TextValidFenced

(***************************************************************************)
(* C9: in UI mode, when the first response of RestaurantAgent.stream lacks *)
(* the delimiter, the prompt of the second attempt contains the original   *)
(* query, the instruction to follow the A2UI JSON schema and the text of   *)
(* the failure reason (the delimiter was not found).                       *)
(***************************************************************************)
C9_RetryPromptAfterMissingDelimiter ==
    (/\ UiCall
     /\ Invocations >= 2
     /\ HasFinalText(1)
     /\ ~Contains(FinalText(1), Delim)) =>
        /\ ContainsText(prompts[2], query)
        /\ ContainsText(prompts[2], SchemaInstruction)
        /\ ContainsText(prompts[2], <<"Delimiter '", Delim, "' not found.">>)

\* the second attempt was started after a response without delimiter
C9_Witness ==
    /\ UiCall
    /\ Invocations = 2
    /\ pc = "events"
    /\ FinalText(1) = TextNoDelimiter
    /\ ContainsText(prompts[2], <<"Please retry the original request: '">>
                                \o query \o <<"'">>)

(***************************************************************************)
(* C10 as stated: the first prompt of RestaurantAgent.stream is exactly    *)
(* the query, and the prompt of every retry, whatever the prior failure,   *)
(* holds the query, an explanation of the failure and the instruction to   *)
(* comply with the schema.                                                 *)
(***************************************************************************)
C10_Original ==
    agent = "restaurant" =>
        /\ Invocations >= 1 => prompts[1] = query
        /\ Invocations >= 2 =>
              /\ ContainsText(prompts[2], query)
              /\ \/ ContainsText(prompts[2], <<"I received no response. Please try again.">>)
                 \/ ContainsText(prompts[2], ErrorMessage(errors[1]))
              /\ ContainsText(prompts[2], SchemaInstruction)

(***************************************************************************)
(* C10 amended: the first prompt of RestaurantAgent.stream is exactly the  *)
(* query.  The prompt of a retry after a failed validation holds the       *)
(* diagnostic of the failure, the instruction to comply with the schema    *)
(* and the query; the prompt of a retry after an attempt without final     *)
(* response text holds the notice "I received no response. Please try      *)
(* again." and the query, and no instruction about the schema.             *)
(***************************************************************************)
C10_RetryPrompts ==
    agent = "restaurant" =>
        /\ Invocations >= 1 => prompts[1] = query
        /\ Invocations >= 2 =>
              /\ ContainsText(prompts[2], query)
              /\ IF HasFinalText(1)
                 THEN /\ use_ui
                      /\ ContainsText(prompts[2], ErrorMessage(errors[1]))
                      /\ ContainsText(prompts[2], SchemaInstruction)
                 ELSE /\ prompts[2] =
                            <<"I received no response. Please try again.",
                              "Please retry the original request: '">>
                            \o query \o <<"'">>
                      /\ ~ContainsText(prompts[2], SchemaInstruction)

\* UI mode: the second attempt was started after an attempt whose stream
\* ended without a final event
C10_Witness ==
    /\ UiCall
    /\ Invocations = 2
    /\ Len(finals) >= 1
    /\ ~finals[1].final
    /\ prompts[1] = query
    /\ prompts[2] # query

(***************************************************************************)
(* C11: a RestaurantAgent in UI mode whose schema failed to load answers   *)
(* every call with the configuration error as its single item, without     *)
(* invoking the model and without progress notification; in text mode the  *)
(* same failed schema does not matter: the model is invoked and its final  *)
(* text is the terminal content.                                           *)
(***************************************************************************)
C11_ConfigurationError ==
    /\ (/\ agent = "restaurant"
        /\ use_ui
        /\ a2ui_schema_object = "None"
        /\ pc # "idle") =>
          /\ Done
          /\ out = <<Terminal(CONFIG_ERROR)>>
          /\ Invocations = 0
          /\ finals = <<>>
    /\ (/\ agent = "restaurant"
        /\ ~use_ui
        /\ a2ui_schema_object = "None"
        /\ Done) =>
          /\ Invocations >= 1
          /\ TerminalContent # CONFIG_ERROR
          /\ HasFinalText(Len(finals)) =>
                TerminalContent = FinalText(Len(finals))

\* UI mode without schema: the call has ended with the configuration error
C11_Witness ==
    /\ agent = "restaurant"
    /\ use_ui
    /\ a2ui_schema_object = "None"
    /\ Done
    /\ TerminalContent = CONFIG_ERROR
    /\ attempt = 0

(***************************************************************************)
(* C12: in both agents a step appends a progress notification exactly when *)
(* it receives an intermediate (non-final) event, one notification per     *)
(* event and each with the agent's fixed processing message; the final     *)
(* event and the end of the event stream append nothing, and any other     *)
(* appended item is the terminal item.                                     *)
(***************************************************************************)
C12_OneProgressPerIntermediateEvent ==
    [][/\ (nevents' = nevents + 1) =>
             out' = Append(out,
                           Progress(IF agent = "restaurant"
                                    THEN RestaurantProcessingMessage
                                    ELSE RealEstateProcessingMessage))
       /\ (nevents' # nevents + 1) =>
             \/ out' = out
             \/ /\ Len(out') = Len(out) + 1
                /\ SubSeq(out', 1, Len(out)) = out
                /\ out'[Len(out')].is_task_complete
       /\ (pc = "events" /\ pc' = "post") => out' = out]_vars

\* two notifications in the first attempt, none deduplicated
C12_Witness ==
    /\ attempt = 1
    /\ nevents = 2
    /\ out = <<Progress(RestaurantProcessingMessage),
               Progress(RestaurantProcessingMessage)>>

\* the stripped suffix of the text parses as JSON but is no array of messages
NotAnArrayOfMessages(text) ==
    /\ Contains(text, Delim)
    /\ JsonLoads(CleanJson(Suffix(text))).ok
    /\ \/ JsonLoads(CleanJson(Suffix(text))).t # "array"
       \/ \E k \in 1..Len(JsonLoads(CleanJson(Suffix(text))).items) :
             JsonLoads(CleanJson(Suffix(text))).items[k] # "message"

(***************************************************************************)
(* C13: in UI mode a response of RestaurantAgent.stream whose stripped     *)
(* suffix parses as JSON but is not an array of messages (a single message *)
(* object, a number, an array with an element that is no message) fails    *)
(* with the schema violation, is never the terminal content, and on the    *)
(* first attempt it leads to the retry.                                    *)
(***************************************************************************)
C13_ArraySchemaOnly ==
    UiCall =>
        \A k \in 1..Len(errors) :
            (HasFinalText(k) /\ NotAnArrayOfMessages(FinalText(k))) =>
                /\ errors[k] = SchemaViolation
                /\ \A i \in TerminalItems : out[i].content # FinalText(k)
                /\ (k = 1 /\ Done) => Invocations = 2

\* a bare message object on the first attempt and a number on the second
C13_Witness ==
    /\ UiCall
    /\ Done
    /\ Len(finals) = 2
    /\ FinalText(1) = TextSingleMessage
    /\ FinalText(2) = TextNumber
    /\ errors = <<SchemaViolation, SchemaViolation>>
    /\ TerminalContent = RETRY_EXHAUSTED

(***************************************************************************)
(* Observations of execute                                                 *)
(***************************************************************************)
Executed == xpc = "done"

\* the terminal content execute has consumed
ExecutedContent == out[consumed].content

\* the last status update execute has published
FinalMessage == published[Len(published)]

\* the text before the first delimiter of a text
Prefix(text) == SubSeq(text, 1, Find(text, Delim) - 1)

\* the content holds the delimiter and the span sliced from the text after
\* it is not valid JSON
UnparsableSpan(content) ==
    /\ Contains(content, Delim)
    /\ ~JsonLoads(ExtractSpan(Suffix(content))).ok

\* the content holds the delimiter and the sliced span parses as JSON
ParsableSpan(content) ==
    /\ Contains(content, Delim)
    /\ JsonLoads(ExtractSpan(Suffix(content))).ok

\* the number of text parts the prose before the delimiter gives
ProseCount(content) == IF Strip(Prefix(content)) # <<>> THEN 1 ELSE 0

(***************************************************************************)
(* C14 as stated: when the span sliced from the text after the delimiter   *)
(* is not valid JSON, execute propagates the parse error: it ends without  *)
(* publishing a final (input_required) message.                            *)
(***************************************************************************)
C14_Original ==
    (/\ agent = "real_estate"
     /\ consumed >= 1
     /\ out[consumed].is_task_complete
     /\ UnparsableSpan(ExecutedContent)) =>
        \A k \in 1..Len(published) : published[k].state # "input_required"

(***************************************************************************)
(* C14 amended: when the span sliced from the text after the delimiter is  *)
(* not valid JSON, the parse error is caught inside execute: execute       *)
(* publishes the final input_required message, whose parts are the trimmed *)
(* prose (when not empty) followed by one text part that holds the raw     *)
(* text after the first delimiter; the message has no A2UI part.           *)
(***************************************************************************)
C14_ParseErrorIsCaught ==
    (/\ agent = "real_estate"
     /\ consumed >= 1
     /\ out[consumed].is_task_complete
     /\ UnparsableSpan(ExecutedContent)) =>
        /\ Executed
        /\ FinalMessage.state = "input_required"
        /\ Len(FinalMessage.parts) = ProseCount(ExecutedContent) + 1
        /\ \A k \in 1..Len(FinalMessage.parts) :
              FinalMessage.parts[k].kind = "text"
        /\ FinalMessage.parts[Len(FinalMessage.parts)].text =
              Suffix(ExecutedContent)
        /\ ProseCount(ExecutedContent) = 1 =>
              FinalMessage.parts[1].text = Strip(Prefix(ExecutedContent))

\* a truncated array after the delimiter: the raw text is shown as text
C14_Witness ==
    /\ agent = "real_estate"
    /\ Executed
    /\ ExecutedContent = TextMalformed
    /\ FinalMessage.parts =
          <<TextPart(Prose), TextPart(<<"[", "M", ",">>)>>

(***************************************************************************)
(* C15 as stated: RealEstateAgent.stream in UI mode emits a model response *)
(* as terminal content only if it passes the UI checks (delimiter, JSON,   *)
(* array schema); every other terminal content is a fixed apology.         *)
(***************************************************************************)
C15_Original ==
    (agent = "real_estate" /\ use_ui) =>
        \A i \in TerminalItems :
            \/ out[i].content \in {NO_PROPERTIES, RETRY_EXHAUSTED}
            \/ PassesUiChecks(out[i].content)

(***************************************************************************)
(* C16 as stated: the terminal content of a successful attempt of          *)
(* RealEstateAgent.stream is the newline-join of the text parts of the     *)
(* final response event of that attempt, also when an intermediate event   *)
(* carries text.                                                           *)
(***************************************************************************)
C16_Original ==
    (/\ agent = "real_estate"
     /\ Done
     /\ errors[Len(errors)] = <<>>) =>
        /\ finals[Len(finals)].final
        /\ TerminalContent = FinalText(Len(finals))

(***************************************************************************)
(* C17: in UI mode, when both attempts of RestaurantAgent.stream return    *)
(* the same text without delimiter, both validations fail with the same    *)
(* diagnostic, the missing delimiter, and the text is left unchanged.      *)
(***************************************************************************)
C17_SameOutcomeTwice ==
    (/\ UiCall
     /\ Len(errors) = 2
     /\ HasFinalText(1)
     /\ HasFinalText(2)
     /\ ~Contains(FinalText(1), Delim)
     /\ FinalText(2) = FinalText(1)) =>
        /\ errors[1] = <<"Delimiter '", Delim, "' not found.">>
        /\ errors[2] = errors[1]
        /\ final_response_content = FinalText(1)

\* the same prose without delimiter was returned on both attempts
C17_Witness ==
    /\ UiCall
    /\ Done
    /\ Len(errors) = 2
    /\ FinalText(1) = TextNoDelimiter
    /\ FinalText(2) = TextNoDelimiter
    /\ errors[2] = MissingDelimiter

(***************************************************************************)
(* C18: both splitters split at the first occurrence of the delimiter.  In *)
(* execute the prose has no delimiter and prose, delimiter and JSON        *)
(* candidate together are the content, so the candidate holds every later  *)
(* occurrence.  In RestaurantAgent.stream a response with two or more      *)
(* delimiters keeps a delimiter in its candidate, which is then no JSON.   *)
(***************************************************************************)
C18_SplitAtFirstDelimiter ==
    /\ (/\ agent = "real_estate"
        /\ Executed
        /\ Contains(ExecutedContent, Delim)) =>
          /\ ~Contains(text_content, Delim)
          /\ text_content \o <<Delim>> \o exec_json_string = ExecutedContent
    /\ UiCall =>
          \A k \in 1..Len(errors) :
              (/\ HasFinalText(k)
               /\ \E i, j \in 1..Len(FinalText(k)) :
                     /\ i < j
                     /\ FinalText(k)[i] = Delim
                     /\ FinalText(k)[j] = Delim) =>
                  errors[k] = MalformedJson

\* a content with two delimiters: the candidate keeps the second one
C18_Witness ==
    /\ agent = "real_estate"
    /\ Executed
    /\ ExecutedContent = TextTwoDelimiters
    /\ text_content = Prose
    /\ exec_json_string = <<"[", "M", "]", Delim, "[", "M", "]">>

(***************************************************************************)
(* C19: execute publishes one working status per progress notification, in *)
(* the order of the stream, and one final input_required status for the    *)
(* terminal item whatever its content; once that status is published,      *)
(* execute consumes nothing more and publishes nothing more.               *)
(***************************************************************************)
C19_StatusUpdates ==
    [][/\ (agent = "real_estate")' =>
             /\ Len(published') = consumed'
             /\ \A k \in 1..consumed' :
                   IF out'[k].is_task_complete
                   THEN /\ published'[k].state = "input_required"
                        /\ k = consumed'
                        /\ xpc' = "done"
                   ELSE /\ published'[k].state = "working"
                        /\ published'[k].parts = <<TextPart(out'[k].updates)>>
             /\ xpc' = "done" => out'[consumed'].is_task_complete
       /\ xpc = "done" =>
             /\ xpc' = "done"
             /\ consumed' = consumed
             /\ published' = published]_vars

\* two working updates and then the apology as the final message
C19_Witness ==
    /\ agent = "real_estate"
    /\ Executed
    /\ consumed = 3
    /\ published[1].state = "working"
    /\ published[2].state = "working"
    /\ published[3].state = "input_required"
    /\ ExecutedContent = NO_PROPERTIES

(***************************************************************************)
(* C20: the parts of the final message of execute.  For a content with the *)
(* delimiter whose sliced span parses: the trimmed prose as one text part  *)
(* exactly when it is not empty, then one A2UI part per element of the     *)
(* parsed array in array order, or one A2UI part for a value that is no    *)
(* array.  For a content without delimiter: one text part with the trimmed *)
(* content.                                                                *)
(***************************************************************************)
C20_FinalMessageParts ==
    (agent = "real_estate" /\ Executed) =>
        /\ ~Contains(ExecutedContent, Delim) =>
              FinalMessage.parts =
                 <<[kind |-> "text", text |-> Strip(ExecutedContent),
                    data |-> "none"]>>
        /\ ParsableSpan(ExecutedContent) =>
              LET v == JsonLoads(ExtractSpan(Suffix(ExecutedContent)))
                  p == ProseCount(ExecutedContent)
                  n == IF v.t = "array" THEN Len(v.items) ELSE 1
              IN  /\ Len(FinalMessage.parts) = p + n
                  /\ p = 1 =>
                        /\ FinalMessage.parts[1].kind = "text"
                        /\ FinalMessage.parts[1].text =
                              Strip(Prefix(ExecutedContent))
                  /\ \A k \in 1..n :
                        /\ FinalMessage.parts[p + k].kind = "a2ui"
                        /\ FinalMessage.parts[p + k].data =
                              IF v.t = "array" THEN v.items[k] ELSE v.t

\* blank prose and an array wrapped in other text: two A2UI parts in the
\* order of the array and no text part
C20_Witness ==
    /\ agent = "real_estate"
    /\ Executed
    /\ ExecutedContent = TextWrapped
    /\ Len(FinalMessage.parts) = 2
    /\ FinalMessage.parts[1].data = "object"
    /\ FinalMessage.parts[2].data = "message"

(***************************************************************************)
(* C21 as stated: when RealEstateAgent.stream starts a second attempt, the *)
(* prompt of that attempt differs from the prompt of the first attempt and *)
(* contains the user's query (the query plus an explanation of the         *)
(* failure).                                                               *)
(***************************************************************************)
C21_Original ==
    (agent = "real_estate" /\ Invocations >= 2) =>
        /\ prompts[2] # prompts[1]
        /\ ContainsText(prompts[2], query)

(***************************************************************************)
(* C23 as stated: the final message published by execute has at least one  *)
(* part, whatever terminal content the agent produced.                     *)
(***************************************************************************)
C23_Original ==
    (agent = "real_estate" /\ Executed) =>
        Len(FinalMessage.parts) >= 1

(***************************************************************************)
(* Observations of the service                                             *)
(***************************************************************************)
\* the state of the handler of /proxy-image
proxyVars == <<ppc, place_id, photo_ref, client, upstream, body, response>>

\* the results from position k on are places of the response from position j
\* on, in the same order
RECURSIVE InOrder(_, _, _, _)
InOrder(res, places, k, j) ==
    IF k > Len(res) THEN TRUE
    ELSE IF j > Len(places) THEN FALSE
    ELSE IF /\ res[k].name = places[j].name
            /\ res[k].place_id = places[j].place_id
    THEN InOrder(res, places, k + 1, j + 1)
    ELSE InOrder(res, places, k, j + 1)

(***************************************************************************)
(* C22: IMAGE_CACHE only grows.  No step of search_properties or of the    *)
(* image proxy removes a key of the cache (a value may be overwritten), so *)
(* the number of entries never goes down, and the steps of the image proxy *)
(* leave the cache as it is.                                               *)
(***************************************************************************)
C22_CacheOnlyGrows ==
    [][/\ \A id \in DOMAIN IMAGE_CACHE : id \in DOMAIN IMAGE_CACHE'
       /\ Cardinality(DOMAIN IMAGE_CACHE') >= Cardinality(DOMAIN IMAGE_CACHE)
       /\ proxyVars' # proxyVars => IMAGE_CACHE' = IMAGE_CACHE]_vars

\* every place with a photo that passes the filter is cached, the photo of
\* one was overwritten by a later search, and the proxy has served it
C22_Witness ==
    /\ DOMAIN IMAGE_CACHE = {"ChIJ1", "ChIJ3"}
    /\ IMAGE_CACHE["ChIJ1"] = "ref1b"
    /\ ppc = "done"
    /\ place_id = "ChIJ1"
    /\ photo_ref = "ref1b"

(***************************************************************************)
(* C24: search_properties returns at most 6 results, in the order of the   *)
(* Places response; no result has a lower-cased name containing 'real      *)
(* estate', 'realty', 'broker', 'agency' or 'management'; every result at  *)
(* position 2 or later has a lower-cased name with no avoid keyword.       *)
(***************************************************************************)
C24_ResultFilter ==
    spc = "returned" =>
        /\ Len(results) <= 6
        /\ InOrder(results, places_result, 1, 1)
        /\ \A k \in 1..Len(results) :
              \A kw \in {"real estate", "realty", "broker", "agency",
                         "management"} :
                  ~InStr(kw, Lower(results[k].name))
        /\ \A k \in 2..Len(results) :
              \A kw \in avoid_keywords : ~InStr(kw, Lower(results[k].name))

\* seven places, the first with the keyword 'group': six results, the first
\* being that place
C24_Witness ==
    /\ spc = "returned"
    /\ Len(places_result) = 7
    /\ Len(results) = 6
    /\ results[1].name = "Sunset Group Homes"
    /\ results[6].place_id = "h6"

(***************************************************************************)
(* C25 as stated: every schema the part converter holds while a request's  *)
(* output is converted is the schema _prepare_session loaded for that      *)
(* request (none for a request that does not activate A2UI).               *)
(***************************************************************************)
C25_Original ==
    \A r \in Requests :
        \A schema \in held_schemas[r] : schema = loaded_schema[r]

(***************************************************************************)
(* C26 as stated: when the handler of /proxy-image has ended and the       *)
(* upstream client was created, the client is closed, and the handler has  *)
(* ended with a response (stream, image file or redirect).                 *)
(***************************************************************************)
C26_Original ==
    ppc = "done" =>
        /\ client # "none" => client = "closed"
        /\ response \in {"stream", "file", "redirect"}

====
